---- MODULE Spec2Model ----
(***************************************************************************)
(* Tower Stack Game: the servo/fan firmware (tower_game.ino under          *)
(* tower_game/tower_game), the falling-block host game (tower_game.pde,    *)
(* "Variant A") and the horizontal-sweep host game (tower_game_button.pde, *)
(* "Variant B"), and the joystick firmware (tower_game.ino at the top of   *)
(* the tree and its sketch without the Y axis, unnamed/part_000).  Each    *)
(* program is one build; the variable `build` says which one a behaviour   *)
(* runs, and the serial peer of each is its environment (any line may      *)
(* arrive).  The build "overlap" applies calculateOverlap of both host     *)
(* games to arguments drawn from a bounded set.                            *)
(***************************************************************************)
EXTENDS Integers, Sequences, FiniteSets, TLC

VARIABLES
  build,               \* which program runs: "servo", "A", "B", "joyXY",
                       \* "joyX" or "overlap"
  \* ---- servo firmware (tower_game/tower_game/tower_game.ino)
  targetServoAngle,    \* int targetServoAngle
  currentServoAngle,   \* int currentServoAngle
  leftFanStartTime,    \* unsigned long leftFanStartTime
  rightFanStartTime,   \* unsigned long rightFanStartTime
  leftFanActive,       \* boolean leftFanActive
  rightFanActive,      \* boolean rightFanActive
  millis,              \* the millis() clock
  data,                \* String data: the last line read in loop(), trimmed
  fanSwitchedOn,       \* the fan the last iteration of loop() activated:
                       \* "left", "right" or "none"
  \* ---- host games (tower_game.pde, tower_game/tower_game_button.pde)
  useArduino,          \* boolean useArduino
  arduinoData,         \* String arduinoData: the last line read in draw()
  score,               \* int score
  gameOver,            \* boolean gameOver
  fallSpeed,           \* float fallSpeed
  blockSpeed,          \* float blockSpeed (Variant B)
  blockWidth,          \* blockWidth
  towerOffset,         \* float towerOffset (Variant B)
  currentBlock,        \* Block currentBlock
  stackedBlocks,       \* ArrayList<Block> stackedBlocks
  platformY,           \* platform.y (the other fields of platform never change)
  written,             \* what the last handler wrote to arduinoPort
  frame,               \* "done", or "reading": draw() is inside its serial
                       \* read loop
  \* ---- joystick firmware (tower_game.ino, unnamed/part_000)
  xValue,              \* int xValue
  yValue,              \* int yValue
  printed,             \* the lines the last iteration of loop() printed
  buttonLow,           \* digitalRead(BUTTON_PIN) == LOW in the last iteration
                       \* of loop() of the joystick sketches
  \* ---- calculateOverlap applied to drawn arguments
  ovArgs,              \* <<x1, w1, x2, w2>>
  ovResult             \* the results, <<>> before the first call

fwVars == <<targetServoAngle, currentServoAngle, leftFanStartTime,
            rightFanStartTime, leftFanActive, rightFanActive, millis,
            data, fanSwitchedOn>>

hostVars == <<useArduino, arduinoData, score, gameOver, fallSpeed, blockSpeed,
              blockWidth, towerOffset, currentBlock, stackedBlocks, platformY,
              written, frame>>

joyVars == <<xValue, yValue, printed, buttonLow>>

ovVars == <<ovArgs, ovResult>>

vars == <<build, fwVars, hostVars, joyVars, ovVars>>

----------------------------------------------------------------------------
(* Bounds of the model.                                                    *)

\* the clock is read at a resolution of ClockStep milliseconds
ClockStep == 1000
\* the clock counts modulo ClockStep * ClockTicks (2^32 in the build)
ClockTicks == 4

ClockWrap == ClockStep * ClockTicks

\* a game is followed up to MaxScore landed blocks
MaxScore == 2
MaxTower == 43
\* draw() of Variant B finds at most MaxLines complete lines in the buffer
MaxLines == 1

----------------------------------------------------------------------------
(* Strings are sequences of one-character strings.                         *)

Null == <<"<null>">>

Digits == <<"0", "1", "2", "3", "4", "5", "6", "7", "8", "9">>

IsDigit(c) == \E i \in 1..10 : Digits[i] = c

DigitVal(c) == (CHOOSE i \in 1..10 : Digits[i] = c) - 1

IsSpace(c) == c \in {" ", "\r", "\n", "\t"}

RECURSIVE TrimLeft(_)
TrimLeft(s) ==
  IF s # <<>> /\ IsSpace(Head(s)) THEN TrimLeft(Tail(s)) ELSE s

RECURSIVE TrimRight(_)
TrimRight(s) ==
  IF s # <<>> /\ IsSpace(s[Len(s)]) THEN TrimRight(SubSeq(s, 1, Len(s) - 1))
  ELSE s

\* String::trim() / Processing trim()
trim(s) == TrimRight(TrimLeft(s))

RECURSIVE DecDigits(_)
DecDigits(n) ==
  IF n < 10 THEN <<Digits[n + 1]>>
  ELSE DecDigits(n \div 10) \o <<Digits[(n % 10) + 1]>>

\* the decimal text of an int, as string concatenation writes it
str(n) == IF n < 0 THEN <<"-">> \o DecDigits(-n) ELSE DecDigits(n)

\* String::startsWith
startsWith(s, p) == Len(s) >= Len(p) /\ SubSeq(s, 1, Len(p)) = p

\* String::substring(from)
substring(s, from) == SubSeq(s, from + 1, Len(s))

----------------------------------------------------------------------------
(* Integer arithmetic of the firmware.                                     *)

IntBits == 16

\* conversion of a long to the firmware's int
ToInt(v) ==
  LET m == v % (2 ^ IntBits)
  IN  IF m >= 2 ^ (IntBits - 1) THEN m - 2 ^ IntBits ELSE m

Abs(n) == IF n < 0 THEN -n ELSE n

\* C division truncates toward zero
TruncDiv(a, b) == IF a >= 0 THEN a \div b ELSE -((-a) \div b)

RECURSIVE AccDigits(_, _)
AccDigits(s, acc) ==
  IF s # <<>> /\ IsDigit(Head(s))
  THEN AccDigits(Tail(s), acc * 10 + DigitVal(Head(s)))
  ELSE acc

\* atol(): leading white space, an optional sign, then the leading digits
atol(s) ==
  LET t == TrimLeft(s)
  IN  IF t = <<>> THEN 0
      ELSE IF Head(t) = "-" THEN -AccDigits(Tail(t), 0)
      ELSE IF Head(t) = "+" THEN AccDigits(Tail(t), 0)
      ELSE AccDigits(t, 0)

\* String::toInt(), assigned to an int
toInt(s) == ToInt(atol(s))

\* Arduino map()
map(x, in_min, in_max, out_min, out_max) ==
  TruncDiv((x - in_min) * (out_max - out_min), in_max - in_min) + out_min

\* Arduino constrain()
constrain(x, a, b) == IF x < a THEN a ELSE IF x > b THEN b ELSE x

----------------------------------------------------------------------------
(* Servo firmware.                                                         *)

SERVO_CENTER == 90
SERVO_MIN == 70
SERVO_MAX == 110
FAN_DURATION == 3000

\* unsigned subtraction millis() - start
Elapsed(now, start) == (now - start) % ClockWrap

\* variant: the remapped value is stored without constrain()
updateTiltTarget_NoConstrain(tiltValue) ==
  ToInt(map(tiltValue, -100, 100, SERVO_MIN, SERVO_MAX))

updateTiltTarget(tiltValue) ==
  LET mapped == ToInt(map(tiltValue, -100, 100, SERVO_MIN, SERVO_MAX))
  IN  constrain(mapped, SERVO_MIN, SERVO_MAX)

\* the fan part of the firmware state
FanState == [lActive |-> leftFanActive, lStart |-> leftFanStartTime,
             rActive |-> rightFanActive, rStart |-> rightFanStartTime]

activateLeftFan(f, now) == [f EXCEPT !.lActive = TRUE, !.lStart = now]

activateRightFan(f, now) == [f EXCEPT !.rActive = TRUE, !.rStart = now]

\* variant: the motion stops one degree short of the target
updateServoPosition_StopsShort(cur, tgt, f, now) ==
  IF cur < tgt - 1 THEN
    [cur |-> cur + 1,
     fan |-> IF cur + 1 > SERVO_CENTER + 3 /\ ~f.lActive
             THEN activateLeftFan(f, now) ELSE f]
  ELSE IF cur > tgt + 1 THEN
    [cur |-> cur - 1,
     fan |-> IF cur - 1 < SERVO_CENTER - 3 /\ ~f.rActive
             THEN activateRightFan(f, now) ELSE f]
  ELSE [cur |-> cur, fan |-> f]

\* variant: the servo jumps to the target in one step
updateServoPosition_Jump(cur, tgt, f, now) ==
  IF cur < tgt THEN
    [cur |-> tgt,
     fan |-> IF tgt > SERVO_CENTER + 3 /\ ~f.lActive
             THEN activateLeftFan(f, now) ELSE f]
  ELSE IF cur > tgt THEN
    [cur |-> tgt,
     fan |-> IF tgt < SERVO_CENTER - 3 /\ ~f.rActive
             THEN activateRightFan(f, now) ELSE f]
  ELSE [cur |-> cur, fan |-> f]

\* variant: a fan is activated on every step beyond the threshold
updateServoPosition_Rearm(cur, tgt, f, now) ==
  IF cur < tgt THEN
    [cur |-> cur + 1,
     fan |-> IF cur + 1 > SERVO_CENTER + 3
             THEN activateLeftFan(f, now) ELSE f]
  ELSE IF cur > tgt THEN
    [cur |-> cur - 1,
     fan |-> IF cur - 1 < SERVO_CENTER - 3
             THEN activateRightFan(f, now) ELSE f]
  ELSE [cur |-> cur, fan |-> f]

\* variant: a fan is activated beyond its threshold whichever way the servo
\* moves
updateServoPosition_EitherWay(cur, tgt, f, now) ==
  IF cur < tgt THEN
    [cur |-> cur + 1,
     fan |-> IF cur + 1 > SERVO_CENTER + 3 /\ ~f.lActive
             THEN activateLeftFan(f, now)
             ELSE IF cur + 1 < SERVO_CENTER - 3 /\ ~f.rActive
             THEN activateRightFan(f, now) ELSE f]
  ELSE IF cur > tgt THEN
    [cur |-> cur - 1,
     fan |-> IF cur - 1 < SERVO_CENTER - 3 /\ ~f.rActive
             THEN activateRightFan(f, now)
             ELSE IF cur - 1 > SERVO_CENTER + 3 /\ ~f.lActive
             THEN activateLeftFan(f, now) ELSE f]
  ELSE [cur |-> cur, fan |-> f]

\* one motion step at clock reading now: the new angle and fan state
updateServoPosition(cur, tgt, f, now) ==
  IF cur < tgt THEN
    [cur |-> cur + 1,
     fan |-> IF cur + 1 > SERVO_CENTER + 3 /\ ~f.lActive
             THEN activateLeftFan(f, now) ELSE f]
  ELSE IF cur > tgt THEN
    [cur |-> cur - 1,
     fan |-> IF cur - 1 < SERVO_CENTER - 3 /\ ~f.rActive
             THEN activateRightFan(f, now) ELSE f]
  ELSE [cur |-> cur, fan |-> f]

\* variant: the clock is compared without subtracting the start time
updateFans_NoStart(f, now) ==
  [f EXCEPT
     !.lActive = IF f.lActive /\ now >= FAN_DURATION
                 THEN FALSE ELSE f.lActive,
     !.rActive = IF f.rActive /\ now >= FAN_DURATION
                 THEN FALSE ELSE f.rActive]

updateFans(f, now) ==
  [f EXCEPT
     !.lActive = IF f.lActive /\ Elapsed(now, f.lStart) >= FAN_DURATION
                 THEN FALSE ELSE f.lActive,
     !.rActive = IF f.rActive /\ Elapsed(now, f.rStart) >= FAN_DURATION
                 THEN FALSE ELSE f.rActive]

TILT == <<"T", "I", "L", "T", ":">>
RESET == <<"R", "E", "S", "E", "T">>

\* the serial part of loop(): the target after the trimmed line d
processLine(d, tgt) ==
  IF startsWith(d, TILT) THEN updateTiltTarget(toInt(substring(d, 5)))
  ELSE IF d = RESET THEN SERVO_CENTER
  ELSE tgt

\* lines the host, or noise on the wire, may deliver
FwLines ==
  { TILT \o <<"0">>,
    TILT \o <<"5", "0">>,
    TILT \o <<"1", "0", "0">>,
    TILT \o <<"-", "1", "0", "0">>,
    TILT \o <<"2", "5", "0">>,
    TILT \o <<"-", "2", "5", "0">>,
    TILT \o <<"4", "0", "0", "0", "0">>,
    TILT \o <<"a", "b", "c">>,
    TILT,
    RESET \o <<"\r">>,
    RESET \o <<"S">>,
    <<"r", "e", "s", "e", "t">> }

ClockDeltas == {0, ClockStep}

\* one iteration of loop(): input is the line in the receive buffer (Null:
\* nothing available), dt the time that has passed since the previous
\* iteration read the clock (the delay(200) after a button press and the
\* delay(10) of a motion step included)
loop(input, dt) ==
  /\ build = "servo"
  /\ LET now   == (millis + dt) % ClockWrap
         moved == updateServoPosition(currentServoAngle, targetServoAngle,
                                      FanState, now)
         fans  == updateFans(moved.fan, now)
         d     == IF input = Null THEN Null ELSE trim(input)
     IN  /\ currentServoAngle' = moved.cur
         /\ leftFanActive' = fans.lActive
         /\ leftFanStartTime' = fans.lStart
         /\ rightFanActive' = fans.rActive
         /\ rightFanStartTime' = fans.rStart
         /\ millis' = now
         /\ data' = d
         /\ fanSwitchedOn' =
              IF moved.fan.lActive /\ ~leftFanActive THEN "left"
              ELSE IF moved.fan.rActive /\ ~rightFanActive THEN "right"
              ELSE "none"
         /\ targetServoAngle' =
              IF input = Null THEN targetServoAngle
              ELSE processLine(d, targetServoAngle)
  /\ UNCHANGED <<build, hostVars, joyVars, ovVars>>

\* the host variables of a build without a host game
NoHost ==
  /\ useArduino = FALSE
  /\ arduinoData = <<>>
  /\ score = 0
  /\ gameOver = FALSE
  /\ fallSpeed = 0
  /\ blockSpeed = 0
  /\ blockWidth = 0
  /\ towerOffset = 0
  /\ currentBlock = <<>>
  /\ stackedBlocks = <<>>
  /\ platformY = 0
  /\ written = <<>>
  /\ frame = "done"

\* the joystick variables of a build without the joystick
NoJoystick ==
  /\ xValue = 0
  /\ yValue = 0
  /\ printed = <<>>
  /\ buttonLow = FALSE

\* the variables of the overlap calls in a build that is a whole program
NoOverlapCall ==
  /\ ovArgs = <<>>
  /\ ovResult = <<>>

\* setup()
InitServo ==
  /\ build = "servo"
  /\ NoHost
  /\ NoJoystick
  /\ NoOverlapCall
  /\ targetServoAngle = SERVO_CENTER
  /\ currentServoAngle = SERVO_CENTER
  /\ leftFanStartTime = 0
  /\ rightFanStartTime = 0
  /\ leftFanActive = FALSE
  /\ rightFanActive = FALSE
  /\ millis = 0
  /\ data = Null
  /\ fanSwitchedOn = "none"

NextServo ==
  \E input \in FwLines \cup {Null}, dt \in ClockDeltas : loop(input, dt)

SpecServo == InitServo /\ [][NextServo]_vars

\* the lines a well-behaved host sends
HostSentLines ==
  { TILT \o <<"5", "0">>,
    TILT \o <<"1", "0", "0">>,
    TILT \o <<"-", "1", "0", "0">>,
    RESET \o <<"\r">> }

NextServoFair ==
  \E input \in HostSentLines \cup {Null}, dt \in ClockDeltas : loop(input, dt)

\* loop() runs forever and the clock advances
FairServo ==
  /\ InitServo
  /\ [][NextServoFair]_vars
  /\ WF_vars(\E input \in HostSentLines \cup {Null} : loop(input, ClockStep))

----------------------------------------------------------------------------
(* Host games: common parts.  Lengths and speeds are floats in the source; *)
(* the model counts them in units of 1/Scale pixel, which holds the        *)
(* tenths of the speeds and the halves of the widths exactly.              *)

Scale == 16 * 5

PX(n) == n * Scale

\* a number of tenths of a pixel
Tenths(n) == (n * Scale) \div 10

Half(v) == v \div 2

Max(a, b) == IF a >= b THEN a ELSE b

Min(a, b) == IF a <= b THEN a ELSE b

Last(q) == q[Len(q)]

DROP == <<"D", "R", "O", "P">>
LEFT == <<"L", "E", "F", "T">>
RIGHT == <<"R", "I", "G", "H", "T">>

\* println() of the firmware ends a line with CR LF; readStringUntil('\n')
\* returns the line with its terminator
Wire(s) == s \o <<"\r", "\n">>

\* the game state the handlers work on
Game ==
  [useArduino |-> useArduino, arduinoData |-> arduinoData, score |-> score,
   gameOver |-> gameOver, fallSpeed |-> fallSpeed, blockSpeed |-> blockSpeed,
   blockWidth |-> blockWidth, towerOffset |-> towerOffset,
   currentBlock |-> currentBlock, stackedBlocks |-> stackedBlocks,
   platformY |-> platformY, written |-> written]

SetGame(g) ==
  /\ useArduino' = g.useArduino
  /\ arduinoData' = g.arduinoData
  /\ score' = g.score
  /\ gameOver' = g.gameOver
  /\ fallSpeed' = g.fallSpeed
  /\ blockSpeed' = g.blockSpeed
  /\ blockWidth' = g.blockWidth
  /\ towerOffset' = g.towerOffset
  /\ currentBlock' = g.currentBlock
  /\ stackedBlocks' = g.stackedBlocks
  /\ platformY' = g.platformY
  /\ written' = g.written

\* stackedBlocks.contains(b): the list holds the object b
contains(q, b) == \E i \in 1..Len(q) : q[i].id = b.id

\* currentBlock and the entry of stackedBlocks that is the same object are
\* written together
WithCurrent(g, b) ==
  [g EXCEPT !.currentBlock = b,
            !.stackedBlocks = [i \in 1..Len(g.stackedBlocks) |->
                                 IF g.stackedBlocks[i].id = b.id THEN b
                                 ELSE g.stackedBlocks[i]]]

\* calculateOverlap() of Variant A
calculateOverlapA(x1, w1, x2, w2) ==
  LET left1 == x1 - Half(w1)
      right1 == x1 + Half(w1)
      left2 == x2 - Half(w2)
      right2 == x2 + Half(w2)
      overlapLeft == Max(left1, left2)
      overlapRight == Min(right1, right2)
  IN  Max(0, overlapRight - overlapLeft)

\* variant: the difference is returned as it is
calculateOverlap_NoFloor(x1, w1, x2, w2) ==
  LET left1 == x1 - Half(w1)
      right1 == x1 + Half(w1)
      left2 == x2 - Half(w2)
      right2 == x2 + Half(w2)
      overlapLeft == Max(left1, left2)
      overlapRight == Min(right1, right2)
  IN  overlapRight - overlapLeft

\* calculateOverlap() of Variant B
calculateOverlap(x1, w1, x2, w2) ==
  LET left1 == x1 - Half(w1)
      right1 == x1 + Half(w1)
      left2 == x2 - Half(w2)
      right2 == x2 + Half(w2)
      overlapLeft == Max(left1, left2)
      overlapRight == Min(right1, right2)
  IN  Max(0, overlapRight - overlapLeft)

minOverlap == PX(20)

----------------------------------------------------------------------------
(* Variant B: tower_game/tower_game_button.pde                             *)

widthB == PX(900)
heightB == PX(700)
blockHeightB == PX(30)
maxTowerOffset == PX(100)
blockDescentAmount == PX(20)
platformXB == widthB \div 2
platformWB == PX(120)
platformY0B == heightB - PX(100)
dropZoneMargin == PX(30)
spawnYB == PX(150)

\* new Block(x, y, w, h, c); id tells the objects apart
BlockB(id, x, y, w) ==
  [id |-> id, x |-> x, y |-> y, w |-> w, isFalling |-> FALSE,
   hasTarget |-> FALSE, targetY |-> y, misalignment |-> 0,
   direction |-> IF x < widthB \div 2 THEN 1 ELSE -1]

spawnNewBlockB(g) ==
  LET x == IF g.score % 2 = 0 THEN -Half(g.blockWidth)
           ELSE widthB + Half(g.blockWidth)
  IN  [g EXCEPT !.currentBlock = BlockB(g.score, x, spawnYB, g.blockWidth)]

getTopOfStack(g) ==
  IF Len(g.stackedBlocks) = 0 THEN g.platformY ELSE Last(g.stackedBlocks).y

\* Block.update()
updateB(b, fall, sweep) ==
  IF ~b.isFalling /\ ~b.hasTarget THEN [b EXCEPT !.x = b.x + sweep * b.direction]
  ELSE IF b.hasTarget /\ b.y < b.targetY THEN
    IF b.y + fall >= b.targetY
    THEN [b EXCEPT !.y = b.targetY, !.hasTarget = FALSE, !.isFalling = FALSE]
    ELSE [b EXCEPT !.y = b.y + fall]
  ELSE b

\* Block.isOutOfBounds()
isOutOfBounds(b, bw) == b.x < -bw \/ b.x > widthB + bw

\* variant: the misalignment is applied to the tower at the drop as well
dropBlockB_AppliesAtDrop(g) ==
  LET b == g.currentBlock
      dropZoneLeft == platformXB - Half(platformWB) - dropZoneMargin
      dropZoneRight == platformXB + Half(platformWB) + dropZoneMargin
      targetX == IF Len(g.stackedBlocks) = 0 THEN platformXB
                 ELSE Last(g.stackedBlocks).x
      targetWidth == IF Len(g.stackedBlocks) = 0 THEN platformWB
                     ELSE Last(g.stackedBlocks).w
      overlap == calculateOverlap(b.x, b.w, targetX, targetWidth)
      misalignment == b.x - targetX
      marked == [b EXCEPT !.misalignment = misalignment]
      placed == [marked EXCEPT !.targetY = getTopOfStack(g) - blockHeightB,
                               !.isFalling = TRUE, !.hasTarget = TRUE]
  IN  IF g.gameOver THEN g
      ELSE IF b.isFalling \/ b.hasTarget THEN g
      ELSE IF b.x >= dropZoneLeft /\ b.x <= dropZoneRight THEN
        IF overlap > minOverlap THEN
          IF Abs(g.towerOffset + misalignment) > maxTowerOffset
          THEN [g EXCEPT !.currentBlock = marked, !.gameOver = TRUE]
          ELSE [g EXCEPT !.currentBlock = placed,
                         !.towerOffset = g.towerOffset + misalignment,
                         !.stackedBlocks = Append(g.stackedBlocks, placed)]
        ELSE [g EXCEPT !.gameOver = TRUE]
      ELSE [g EXCEPT !.gameOver = TRUE]

\* variant: the drop zone is laid around the top of the stack
dropBlockB_ZoneAroundTarget(g) ==
  LET b == g.currentBlock
      targetX == IF Len(g.stackedBlocks) = 0 THEN platformXB
                 ELSE Last(g.stackedBlocks).x
      targetWidth == IF Len(g.stackedBlocks) = 0 THEN platformWB
                     ELSE Last(g.stackedBlocks).w
      dropZoneLeft == targetX - Half(targetWidth) - dropZoneMargin
      dropZoneRight == targetX + Half(targetWidth) + dropZoneMargin
      overlap == calculateOverlap(b.x, b.w, targetX, targetWidth)
      misalignment == b.x - targetX
      marked == [b EXCEPT !.misalignment = misalignment]
      placed == [marked EXCEPT !.targetY = getTopOfStack(g) - blockHeightB,
                               !.isFalling = TRUE, !.hasTarget = TRUE]
  IN  IF g.gameOver THEN g
      ELSE IF b.isFalling \/ b.hasTarget THEN g
      ELSE IF b.x >= dropZoneLeft /\ b.x <= dropZoneRight THEN
        IF overlap > minOverlap THEN
          IF Abs(g.towerOffset + misalignment) > maxTowerOffset
          THEN [g EXCEPT !.currentBlock = marked, !.gameOver = TRUE]
          ELSE [g EXCEPT !.currentBlock = placed,
                         !.stackedBlocks = Append(g.stackedBlocks, placed)]
        ELSE [g EXCEPT !.gameOver = TRUE]
      ELSE [g EXCEPT !.gameOver = TRUE]

dropBlockB(g) ==
  LET b == g.currentBlock
      dropZoneLeft == platformXB - Half(platformWB) - dropZoneMargin
      dropZoneRight == platformXB + Half(platformWB) + dropZoneMargin
      targetX == IF Len(g.stackedBlocks) = 0 THEN platformXB
                 ELSE Last(g.stackedBlocks).x
      targetWidth == IF Len(g.stackedBlocks) = 0 THEN platformWB
                     ELSE Last(g.stackedBlocks).w
      overlap == calculateOverlap(b.x, b.w, targetX, targetWidth)
      misalignment == b.x - targetX
      marked == [b EXCEPT !.misalignment = misalignment]
      placed == [marked EXCEPT !.targetY = getTopOfStack(g) - blockHeightB,
                               !.isFalling = TRUE, !.hasTarget = TRUE]
  IN  IF g.gameOver THEN g
      ELSE IF b.isFalling \/ b.hasTarget THEN g
      ELSE IF b.x >= dropZoneLeft /\ b.x <= dropZoneRight THEN
        IF overlap > minOverlap THEN
          IF Abs(g.towerOffset + misalignment) > maxTowerOffset
          THEN [g EXCEPT !.currentBlock = marked, !.gameOver = TRUE]
          ELSE [g EXCEPT !.currentBlock = placed,
                         !.stackedBlocks = Append(g.stackedBlocks, placed)]
        ELSE [g EXCEPT !.gameOver = TRUE]
      ELSE [g EXCEPT !.gameOver = TRUE]

handleArduinoInputB(g, input) ==
  LET normalized == trim(input)
  IN  IF normalized = DROP \/ startsWith(normalized, DROP) THEN dropBlockB(g)
      ELSE g

\* the serial part of draw(): every complete line of the buffer is read,
\* trimmed and handled
RECURSIVE readLinesB(_, _)
readLinesB(g, lines) ==
  IF lines = <<>> THEN g
  ELSE LET d == trim(Head(lines))
       IN  readLinesB(handleArduinoInputB([g EXCEPT !.arduinoData = d], d),
                      Tail(lines))

\* variant: the platform stays where it is when the tower moves down
landB_KeepsPlatform(g) ==
  LET shifted == [i \in 1..Len(g.stackedBlocks) |->
                    LET b == g.stackedBlocks[i]
                    IN  [b EXCEPT !.y = b.y + blockDescentAmount,
                                  !.targetY = IF b.hasTarget
                                              THEN b.targetY + blockDescentAmount
                                              ELSE b.targetY]]
  IN  spawnNewBlockB(
        [g EXCEPT !.towerOffset = g.towerOffset + g.currentBlock.misalignment,
                  !.stackedBlocks = shifted,
                  !.score = g.score + 1,
                  !.blockSpeed = g.blockSpeed + Tenths(2),
                  !.fallSpeed = g.fallSpeed + Tenths(1)])

\* variant: the misalignment is added in the landing frame and once more
landB_AddsTwice(g) ==
  LET shifted == [i \in 1..Len(g.stackedBlocks) |->
                    LET b == g.stackedBlocks[i]
                    IN  [b EXCEPT !.y = b.y + blockDescentAmount,
                                  !.targetY = IF b.hasTarget
                                              THEN b.targetY + blockDescentAmount
                                              ELSE b.targetY]]
  IN  spawnNewBlockB(
        [g EXCEPT !.towerOffset =
                    g.towerOffset + 2 * g.currentBlock.misalignment,
                  !.stackedBlocks = shifted,
                  !.platformY = g.platformY + blockDescentAmount,
                  !.score = g.score + 1,
                  !.blockSpeed = g.blockSpeed + Tenths(2),
                  !.fallSpeed = g.fallSpeed + Tenths(1)])

\* draw(): the block in the list has come to rest
landB(g) ==
  LET shifted == [i \in 1..Len(g.stackedBlocks) |->
                    LET b == g.stackedBlocks[i]
                    IN  [b EXCEPT !.y = b.y + blockDescentAmount,
                                  !.targetY = IF b.hasTarget
                                              THEN b.targetY + blockDescentAmount
                                              ELSE b.targetY]]
  IN  spawnNewBlockB(
        [g EXCEPT !.towerOffset = g.towerOffset + g.currentBlock.misalignment,
                  !.stackedBlocks = shifted,
                  !.platformY = g.platformY + blockDescentAmount,
                  !.score = g.score + 1,
                  !.blockSpeed = g.blockSpeed + Tenths(2),
                  !.fallSpeed = g.fallSpeed + Tenths(1)])

\* the game part of draw()
stepB(g) ==
  IF g.gameOver THEN g
  ELSE
    LET g1 == WithCurrent(g, updateB(g.currentBlock, g.fallSpeed, g.blockSpeed))
        g2 == IF g1.currentBlock.isFalling = FALSE
                 /\ contains(g1.stackedBlocks, g1.currentBlock)
              THEN landB(g1) ELSE g1
    IN  IF isOutOfBounds(g2.currentBlock, g2.blockWidth)
        THEN [g2 EXCEPT !.gameOver = TRUE] ELSE g2

\* Processing map() followed by the cast to int
mapToInt(value, start1, stop1, start2, stop2) ==
  TruncDiv(start2 * (stop1 - start1) + (stop2 - start2) * (value - start1),
           stop1 - start1)

sendTiltToArduino(g) ==
  LET tiltValue == mapToInt(g.towerOffset, -maxTowerOffset, maxTowerOffset,
                            -100, 100)
  IN  [g EXCEPT !.written = Append(g.written, TILT \o str(tiltValue) \o <<"\n">>)]

\* variant: the servo is not told
resetGameB_Silent(g) ==
  spawnNewBlockB(
    [g EXCEPT !.stackedBlocks = <<>>, !.score = 0, !.gameOver = FALSE,
              !.fallSpeed = PX(5), !.blockSpeed = PX(5), !.blockWidth = PX(80),
              !.towerOffset = 0, !.platformY = heightB - PX(100)])

resetGameB(g) ==
  spawnNewBlockB(
    [g EXCEPT !.stackedBlocks = <<>>, !.score = 0, !.gameOver = FALSE,
              !.fallSpeed = PX(5), !.blockSpeed = PX(5), !.blockWidth = PX(80),
              !.towerOffset = 0, !.platformY = heightB - PX(100),
              !.written = IF g.useArduino
                          THEN Append(g.written, RESET \o <<"\n">>)
                          ELSE g.written])

\* lines the firmware, or noise on the wire, may deliver to Variant B
LinesB ==
  { Wire(DROP), Wire(DROP \o <<"X">>), Wire(<<"d", "r", "o", "p">>),
    Wire(LEFT) }

\* the lines that make Variant B drop, and the other lines
DropLinesB == {l \in LinesB : startsWith(trim(l), DROP)}

\* the player watches marks on the screen and presses when the sweeping
\* block is at the frame nearest to a mark
PressMarks ==
  IF build = "tall" THEN {450} ELSE {355, 365, 400, 450, 500, 535, 545}

PressOffered(g) ==
  \/ g.gameOver
  \/ \E m \in PressMarks :
       2 * Abs(g.currentBlock.x - PX(m)) < g.blockSpeed

OfferedLinesB(g) ==
  IF PressOffered(g) THEN LinesB ELSE LinesB \ DropLinesB

BufferContents(g) ==
  IF ~g.useArduino THEN {<<>>}
  ELSE UNION {[1..n -> OfferedLinesB(g)] : n \in 0..MaxLines}

\* draw() after its serial part: the tilt is sent when it is due, then the
\* game is stepped
afterReadB(g, sendDue) ==
  stepB(IF g.useArduino /\ sendDue THEN sendTiltToArduino(g) ELSE g)

\* a game of Variant B is followed up to this score: MaxScore with every
\* input, MaxTower with a player who builds a tall tower (build "tall")
ScoreBound == IF build = "tall" THEN MaxTower ELSE MaxScore

\* one frame: draw() with the complete lines found in the receive buffer.
\* partial: the buffer ends with the beginning of a line whose newline has
\* not arrived; available() stays positive and readStringUntil() returns
\* null without taking anything from the buffer, so the read loop goes on.
\* sendDue: more than tiltSendInterval has passed since the last send (a
\* frame that stays in its read loop does not come to sending)
drawB(lines, partial, sendDue) ==
  /\ build \in {"B", "tall"}
  /\ frame = "done"
  /\ score < ScoreBound
  \* lines is one of BufferContents(Game)
  /\ lines # <<>> \/ partial \/ sendDue => useArduino
  /\ \A i \in 1..Len(lines) : lines[i] \in OfferedLinesB(Game)
  /\ partial => ~sendDue
  /\ LET g == readLinesB([Game EXCEPT !.written = <<>>], lines)
     IN  IF partial
         THEN SetGame([g EXCEPT !.arduinoData = Null]) /\ frame' = "reading"
         ELSE SetGame(afterReadB(g, sendDue)) /\ frame' = "done"
  /\ UNCHANGED <<build, fwVars, joyVars, ovVars>>

\* the rest of the line arrives while draw() is in its read loop: the loop
\* reads the line, finds the buffer empty and draw() goes on
lineCompletedB(line, sendDue) ==
  /\ build = "B"
  /\ frame = "reading"
  /\ score < MaxScore
  /\ line \in OfferedLinesB(Game)
  /\ SetGame(afterReadB(readLinesB(Game, <<line>>), sendDue))
  /\ frame' = "done"
  /\ UNCHANGED <<build, fwVars, joyVars, ovVars>>

KeysB == {" ", "r", "R", "x"}

\* variant: R restarts the game whenever it is pressed
onKeyPressedB_AnyTime(g, key) ==
  IF key = "r" \/ key = "R" THEN resetGameB(g)
  ELSE IF g.gameOver THEN g
  ELSE IF key = " " THEN dropBlockB(g) ELSE g

\* the body of keyPressed()
onKeyPressedB(g, key) ==
  IF g.gameOver
  THEN IF key = "r" \/ key = "R" THEN resetGameB(g) ELSE g
  ELSE IF key = " " THEN dropBlockB(g) ELSE g

\* keyPressed(): key events are delivered between two frames
keyPressedB(key) ==
  /\ build \in {"B", "tall"}
  /\ frame = "done"
  /\ score < ScoreBound
  /\ key = " " => PressOffered(Game)
  /\ SetGame(onKeyPressedB([Game EXCEPT !.written = <<>>], key))
  /\ frame' = frame
  /\ UNCHANGED <<build, fwVars, joyVars, ovVars>>

\* the firmware variables of a build without firmware
NoFirmware ==
  /\ targetServoAngle = 0
  /\ currentServoAngle = 0
  /\ leftFanStartTime = 0
  /\ rightFanStartTime = 0
  /\ leftFanActive = FALSE
  /\ rightFanActive = FALSE
  /\ millis = 0
  /\ data = Null
  /\ fanSwitchedOn = "none"

\* the globals' initialisers and setup()
InitB ==
  /\ build = "B"
  /\ NoFirmware
  /\ NoJoystick
  /\ NoOverlapCall
  /\ useArduino \in BOOLEAN
  /\ arduinoData = <<>>
  /\ score = 0
  /\ gameOver = FALSE
  /\ fallSpeed = PX(5)
  /\ blockSpeed = Tenths(55)
  /\ blockWidth = PX(80)
  /\ towerOffset = 0
  /\ stackedBlocks = <<>>
  /\ platformY = platformY0B
  /\ written = <<>>
  /\ frame = "done"
  /\ currentBlock = BlockB(0, -Half(PX(80)), spawnYB, PX(80))

NextB ==
  \/ \E lines \in UNION {[1..n -> LinesB] : n \in 0..MaxLines},
        partial \in BOOLEAN, sendDue \in BOOLEAN :
       drawB(lines, partial, sendDue)
  \/ \E line \in LinesB, sendDue \in BOOLEAN : lineCompletedB(line, sendDue)
  \/ \E key \in KeysB : keyPressedB(key)

SpecB == InitB /\ [][NextB]_vars

\* Variant B without the Arduino (setup() found no port), played by a
\* player who presses the space key when the block is nearest to the centre
InitTall ==
  /\ build = "tall"
  /\ NoFirmware
  /\ NoJoystick
  /\ NoOverlapCall
  /\ useArduino = FALSE
  /\ arduinoData = <<>>
  /\ score = 0
  /\ gameOver = FALSE
  /\ fallSpeed = PX(5)
  /\ blockSpeed = Tenths(55)
  /\ blockWidth = PX(80)
  /\ towerOffset = 0
  /\ stackedBlocks = <<>>
  /\ platformY = platformY0B
  /\ written = <<>>
  /\ frame = "done"
  /\ currentBlock = BlockB(0, -Half(PX(80)), spawnYB, PX(80))

NextTall ==
  \/ drawB(<<>>, FALSE, FALSE)
  \/ \E key \in KeysB : keyPressedB(key)

SpecTall == InitTall /\ [][NextTall]_vars

----------------------------------------------------------------------------
(* Variant A: tower_game.pde                                               *)

widthA == PX(800)
heightA == PX(600)
blockHeightA == PX(30)
platformXA == widthA \div 2
platformWA == PX(120)
platformY0A == heightA - PX(100)
moveStep == PX(10)

\* new Block(x, y, w, h, c); id tells the objects apart
BlockA(id, x, y, w) ==
  [id |-> id, x |-> x, y |-> y, w |-> w, isFalling |-> TRUE]

\* the value an int variable keeps of a length: whole pixels, the
\* fraction dropped (int blockWidth)
toIntPixels(v) == PX(v \div Scale)

\* spawnNewBlock(): rx is the value random() returns
spawnNewBlockA(g, rx) ==
  [g EXCEPT !.currentBlock = BlockA(g.score, rx, 0, g.blockWidth)]

\* the values random(blockWidth/2, width - blockWidth/2) is drawn from
SpawnXs == {PX(45), PX(400), PX(445), PX(480)}

RandomXs(bw) ==
  {rx \in SpawnXs : rx >= toIntPixels(Half(bw))
                    /\ rx < widthA - toIntPixels(Half(bw))}

\* Block.update()
updateA(b, fall) == IF b.isFalling THEN [b EXCEPT !.y = b.y + fall] ELSE b

\* Block.moveLeft()
moveLeft(b) ==
  IF b.isFalling THEN [b EXCEPT !.x = Max(Half(b.w), b.x - moveStep)] ELSE b

\* Block.moveRight()
moveRight(b) ==
  IF b.isFalling THEN [b EXCEPT !.x = Min(widthA - Half(b.w), b.x + moveStep)]
  ELSE b

\* variant: an overlap of exactly the threshold is enough
dropBlockA_AtLeast(g, rx) ==
  LET b == g.currentBlock
      targetX == IF Len(g.stackedBlocks) = 0 THEN platformXA
                 ELSE Last(g.stackedBlocks).x
      targetWidth == IF Len(g.stackedBlocks) = 0 THEN platformWA
                     ELSE Last(g.stackedBlocks).w
      overlap == calculateOverlapA(b.x, b.w, targetX, targetWidth)
      newX == Half(Max(b.x - Half(overlap), targetX - Half(targetWidth))
                   + Min(b.x + Half(overlap), targetX + Half(targetWidth)))
      placed == [b EXCEPT !.y = getTopOfStack(g) - blockHeightA,
                          !.w = overlap, !.x = newX, !.isFalling = FALSE]
  IN  IF g.gameOver THEN g
      ELSE IF overlap >= minOverlap THEN
        spawnNewBlockA(
          [g EXCEPT !.stackedBlocks = Append(g.stackedBlocks, placed),
                    !.score = g.score + 1,
                    !.fallSpeed = g.fallSpeed + Tenths(1),
                    !.blockWidth = toIntPixels(overlap)], rx)
      ELSE [g EXCEPT !.gameOver = TRUE]

dropBlockA(g, rx) ==
  LET b == g.currentBlock
      targetX == IF Len(g.stackedBlocks) = 0 THEN platformXA
                 ELSE Last(g.stackedBlocks).x
      targetWidth == IF Len(g.stackedBlocks) = 0 THEN platformWA
                     ELSE Last(g.stackedBlocks).w
      overlap == calculateOverlapA(b.x, b.w, targetX, targetWidth)
      newX == Half(Max(b.x - Half(overlap), targetX - Half(targetWidth))
                   + Min(b.x + Half(overlap), targetX + Half(targetWidth)))
      placed == [b EXCEPT !.y = getTopOfStack(g) - blockHeightA,
                          !.w = overlap, !.x = newX, !.isFalling = FALSE]
  IN  IF g.gameOver THEN g
      ELSE IF overlap > minOverlap THEN
        spawnNewBlockA(
          [g EXCEPT !.stackedBlocks = Append(g.stackedBlocks, placed),
                    !.score = g.score + 1,
                    !.fallSpeed = g.fallSpeed + Tenths(1),
                    !.blockWidth = toIntPixels(overlap)], rx)
      ELSE [g EXCEPT !.gameOver = TRUE]

\* variant: a line is matched by its prefix, as in Variant B
handleArduinoInputA_Prefix(g, input, rx) ==
  IF startsWith(input, LEFT)
  THEN [g EXCEPT !.currentBlock = moveLeft(g.currentBlock)]
  ELSE IF startsWith(input, RIGHT)
  THEN [g EXCEPT !.currentBlock = moveRight(g.currentBlock)]
  ELSE IF startsWith(input, DROP) THEN dropBlockA(g, rx)
  ELSE g

handleArduinoInputA(g, input, rx) ==
  IF input = LEFT THEN [g EXCEPT !.currentBlock = moveLeft(g.currentBlock)]
  ELSE IF input = RIGHT
  THEN [g EXCEPT !.currentBlock = moveRight(g.currentBlock)]
  ELSE IF input = DROP THEN dropBlockA(g, rx)
  ELSE g

\* the receive buffer as draw() finds it
NoData == <<"<empty>">>
PartialLine == <<"<partial>">>

\* the serial part of draw(): at most one line is read per frame;
\* readStringUntil returns null for a line without its terminator
readLineA(g, line, rx) ==
  IF ~g.useArduino \/ line = NoData THEN g
  ELSE IF line = PartialLine THEN [g EXCEPT !.arduinoData = Null]
  ELSE LET d == trim(line)
       IN  handleArduinoInputA([g EXCEPT !.arduinoData = d], d, rx)

\* the game part of draw()
stepA(g, rx) ==
  IF g.gameOver THEN g
  ELSE LET g1 == [g EXCEPT !.currentBlock = updateA(g.currentBlock, g.fallSpeed)]
       IN  IF g1.currentBlock.y >= getTopOfStack(g1) - blockHeightA
           THEN dropBlockA(g1, rx) ELSE g1

resetGameA(g, rx) ==
  spawnNewBlockA(
    [g EXCEPT !.stackedBlocks = <<>>, !.score = 0, !.gameOver = FALSE,
              !.fallSpeed = PX(2), !.blockWidth = PX(80)], rx)

\* lines the firmware, or noise on the wire, may deliver to Variant A
LinesA == { Wire(LEFT), Wire(RIGHT), Wire(DROP), Wire(DROP \o <<"X">>) }

\* the player aims while the block is at the top of the screen and near
\* the platform or the left wall, and keeps pressing after a game over
aimZone == PX(20)

PlayerActs(g) ==
  \/ g.gameOver
  \/ /\ g.currentBlock.y = 0
     /\ \/ Abs(g.currentBlock.x - platformXA) <= aimZone
        \/ g.currentBlock.x <= PX(45)

\* one frame: draw() with the receive buffer holding line
drawA(line, rx) ==
  /\ build = "A"
  /\ score < MaxScore
  /\ line # NoData => useArduino /\ PlayerActs(Game)
  /\ rx \in RandomXs(blockWidth)
  /\ SetGame(stepA(readLineA(Game, line, rx), rx))
  /\ frame' = frame
  /\ UNCHANGED <<build, fwVars, joyVars, ovVars>>

KeysA == {"a", "d", " ", "r", "R", "x"}

\* the body of keyPressed()
onKeyPressedA(g, key, rx) ==
  IF g.gameOver
  THEN IF key = "r" \/ key = "R" THEN resetGameA(g, rx) ELSE g
  ELSE IF key = "a" THEN [g EXCEPT !.currentBlock = moveLeft(g.currentBlock)]
  ELSE IF key = "d" THEN [g EXCEPT !.currentBlock = moveRight(g.currentBlock)]
  ELSE IF key = " " THEN dropBlockA(g, rx)
  ELSE g

\* keyPressed()
keyPressedA(key, rx) ==
  /\ build = "A"
  /\ score < MaxScore
  /\ PlayerActs(Game)
  /\ rx \in RandomXs(blockWidth)
  /\ SetGame(onKeyPressedA(Game, key, rx))
  /\ frame' = frame
  /\ UNCHANGED <<build, fwVars, joyVars, ovVars>>

\* the globals' initialisers and setup()
InitA ==
  /\ build = "A"
  /\ NoFirmware
  /\ NoJoystick
  /\ NoOverlapCall
  /\ useArduino \in BOOLEAN
  /\ arduinoData = <<>>
  /\ score = 0
  /\ gameOver = FALSE
  /\ fallSpeed = PX(2)
  /\ blockSpeed = 0
  /\ blockWidth = PX(80)
  /\ towerOffset = 0
  /\ stackedBlocks = <<>>
  /\ platformY = platformY0A
  /\ written = <<>>
  /\ frame = "done"
  /\ \E rx \in RandomXs(PX(80)) : currentBlock = BlockA(0, rx, 0, PX(80))

NextA ==
  \/ \E line \in LinesA \cup {NoData, PartialLine}, rx \in SpawnXs :
       drawA(line, rx)
  \/ \E key \in KeysA, rx \in SpawnXs : keyPressedA(key, rx)

SpecA == InitA /\ [][NextA]_vars

----------------------------------------------------------------------------
(* calculateOverlap of both host games, applied to drawn arguments.        *)
(* Centres and widths are counted in units; the widths are even, so that   *)
(* w/2 is exact as it is in the floats of the source.                      *)

\* centres are drawn from 0..MaxCentre
MaxCentre == 8
\* widths are drawn from the even numbers up to 2 * MaxHalfWidth
MaxHalfWidth == 3

OvCentres == 0..MaxCentre

OvWidths == {2 * h : h \in 0..MaxHalfWidth}

OvArgs == OvCentres \X OvWidths \X OvCentres \X OvWidths

\* the call calculateOverlap(x1, w1, x2, w2) in each host game, and the call
\* with the two blocks exchanged
callOverlap ==
  /\ build = "overlap"
  /\ ovResult = <<>>
  /\ LET x1 == ovArgs[1]
         w1 == ovArgs[2]
         x2 == ovArgs[3]
         w2 == ovArgs[4]
     IN  ovResult' = [a |-> calculateOverlapA(x1, w1, x2, w2),
                      b |-> calculateOverlap(x1, w1, x2, w2),
                      aSwapped |-> calculateOverlapA(x2, w2, x1, w1),
                      bSwapped |-> calculateOverlap(x2, w2, x1, w1)]
  /\ UNCHANGED <<build, fwVars, hostVars, joyVars, ovArgs>>

InitOverlap ==
  /\ build = "overlap"
  /\ NoFirmware
  /\ NoHost
  /\ NoJoystick
  /\ ovArgs \in OvArgs
  /\ ovResult = <<>>

NextOverlap == callOverlap

SpecOverlap == InitOverlap /\ [][NextOverlap]_vars

----------------------------------------------------------------------------
(* Joystick firmware: tower_game.ino, and unnamed/part_000 (no Y axis).    *)

centerThreshold == 50

DOWN == <<"D", "O", "W", "N">>

\* what analogRead() may return: the ends of the range, the centre, and the
\* values on both sides of each edge of the dead zone
AnalogReads == {0, 100, 461, 462, 512, 562, 563, 900, 1023}

\* the X axis part of loop(): the lines printed for the reading x
printX(x) ==
  IF x < 512 - centerThreshold THEN <<LEFT>>
  ELSE IF x > 512 + centerThreshold THEN <<RIGHT>>
  ELSE <<>>

\* the button part of loop(): low is digitalRead(BUTTON_PIN) == LOW
printButton(low) == IF low THEN <<DROP>> ELSE <<>>

\* variant: a deflection downwards drops the block as the button does
printY_Drops(y) == IF y > 512 + centerThreshold THEN <<DROP>> ELSE <<>>

\* the Y axis part of loop() of tower_game.ino
printY(y) == IF y > 512 + centerThreshold THEN <<DOWN>> ELSE <<>>

\* one iteration of loop() of tower_game.ino
loopJoyXY(x, y, low) ==
  /\ build = "joyXY"
  /\ xValue' = x
  /\ yValue' = y
  /\ printed' = printX(x) \o printY(y) \o printButton(low)
  /\ buttonLow' = low
  /\ UNCHANGED <<build, fwVars, hostVars, ovVars>>

\* one iteration of loop() of unnamed/part_000
loopJoyX(x, low) ==
  /\ build = "joyX"
  /\ xValue' = x
  /\ printed' = printX(x) \o printButton(low)
  /\ buttonLow' = low
  /\ UNCHANGED <<build, fwVars, hostVars, ovVars, yValue>>

\* the globals' initialisers and setup() of either sketch
InitJoy ==
  /\ build \in {"joyXY", "joyX"}
  /\ NoFirmware
  /\ NoHost
  /\ NoOverlapCall
  /\ xValue = 0
  /\ yValue = 0
  /\ printed = <<>>
  /\ buttonLow = FALSE

NextJoy ==
  \/ \E x \in AnalogReads, y \in AnalogReads, low \in BOOLEAN :
       loopJoyXY(x, y, low)
  \/ \E x \in AnalogReads, low \in BOOLEAN : loopJoyX(x, low)

SpecJoy == InitJoy /\ [][NextJoy]_vars

----------------------------------------------------------------------------
(* All builds.                                                             *)

Init == InitServo \/ InitA \/ InitB \/ InitOverlap \/ InitJoy

Next == NextServo \/ NextA \/ NextB \/ NextOverlap \/ NextJoy

Spec == Init /\ [][Next]_vars

\* the servo firmware with the lines Variant B sends, and Variant B
InitLink == InitServo \/ InitB

NextLink == NextServoFair \/ NextB

SpecLink == InitLink /\ [][NextLink]_vars

\* the two host games
InitHost == InitA \/ InitB

NextHost == NextA \/ NextB

SpecHost == InitHost /\ [][NextHost]_vars

----------------------------------------------------------------------------
(* Properties of the servo firmware.                                       *)

\* the text s is a base-10 signed integer
IsSignedInteger(s) ==
  LET body == IF s # <<>> /\ Head(s) \in {"+", "-"} THEN Tail(s) ELSE s
  IN  body # <<>> /\ \A i \in 1..Len(body) : IsDigit(body[i])

\* C3: after any sequence of loop iterations and received lines, both
\* currentServoAngle and targetServoAngle are within [SERVO_MIN, SERVO_MAX].
C3_AnglesInBounds ==
  build = "servo" =>
    /\ currentServoAngle \in SERVO_MIN..SERVO_MAX
    /\ targetServoAngle \in SERVO_MIN..SERVO_MAX

\* an out-of-range TILT was received and the servo followed it to the bound
C3_Witness ==
  /\ build = "servo"
  /\ data = TILT \o <<"2", "5", "0">>
  /\ targetServoAngle = SERVO_MAX
  /\ currentServoAngle = SERVO_MAX

\* C4: if from some point on the target no longer changes, currentServoAngle
\* eventually equals targetServoAngle and stays equal; it is never below
\* SERVO_MIN on the way.
C4_Converges ==
  /\ \/ []<><<targetServoAngle' # targetServoAngle>>_vars
     \/ <>[](currentServoAngle = targetServoAngle)
  /\ [](currentServoAngle >= SERVO_MIN)

\* the servo has travelled from the centre to the lower bound
C4_Witness ==
  /\ build = "servo"
  /\ targetServoAngle = SERVO_MIN
  /\ currentServoAngle = SERVO_MIN

\* C5: in one loop iteration currentServoAngle changes by at most one degree,
\* only toward the target the iteration started with, never past it, and not
\* at all when it already equals the target.
C5_RateLimit ==
  [][build = "servo" =>
       LET d == currentServoAngle' - currentServoAngle
       IN  /\ d \in {-1, 0, 1}
           /\ d = 1 => currentServoAngle < targetServoAngle
           /\ d = -1 => currentServoAngle > targetServoAngle
           /\ currentServoAngle = targetServoAngle => d = 0
           /\ Abs(currentServoAngle' - targetServoAngle)
                 <= Abs(currentServoAngle - targetServoAngle)]_vars

\* the servo is under way to a target several degrees off
C5_Witness ==
  /\ build = "servo"
  /\ currentServoAngle = SERVO_CENTER + 5
  /\ targetServoAngle = SERVO_MIN

\* C6: a fan is turned off only when at least FAN_DURATION has elapsed since
\* its activation, it is off after the first updateFans call at which that
\* much has elapsed, and an active fan is eventually turned off.
C6_FanDuration ==
  /\ [][/\ leftFanActive /\ ~leftFanActive'
            => Elapsed(millis', leftFanStartTime) >= FAN_DURATION
        /\ rightFanActive /\ ~rightFanActive'
            => Elapsed(millis', rightFanStartTime) >= FAN_DURATION]_vars
  /\ [](/\ leftFanActive => Elapsed(millis, leftFanStartTime) < FAN_DURATION
        /\ rightFanActive
            => Elapsed(millis, rightFanStartTime) < FAN_DURATION)
  /\ leftFanActive ~> ~leftFanActive
  /\ rightFanActive ~> ~rightFanActive

\* the left fan ran and was turned off while the servo is still tilted right
C6_Witness ==
  /\ build = "servo"
  /\ ~leftFanActive
  /\ currentServoAngle > SERVO_CENTER + 3
  /\ Elapsed(millis, leftFanStartTime) = FAN_DURATION

\* C7: while a fan is active no loop iteration changes its start time.
C7_NoRearm ==
  [][/\ leftFanActive => leftFanStartTime' = leftFanStartTime
     /\ rightFanActive => rightFanStartTime' = rightFanStartTime]_vars

\* the servo kept moving above the threshold while the left fan was running
C7_Witness ==
  /\ build = "servo"
  /\ leftFanActive
  /\ currentServoAngle > SERVO_CENTER + 5
  /\ millis # leftFanStartTime

\* C8: a line that begins with TILT: but whose remainder is not a base-10
\* signed integer leaves targetServoAngle unchanged.
C8_MalformedTiltDiscarded ==
  [][/\ build = "servo"
     /\ data' # Null
     /\ startsWith(data', TILT)
     /\ ~IsSignedInteger(substring(data', 5))
     => targetServoAngle' = targetServoAngle]_vars

\* C10: a TILT line with integer payload p sets the target to the linear
\* remap 70 + (p + 100) * 40 / 200 for p in [-100, 100], to SERVO_MAX for
\* p > 100 and to SERVO_MIN for p < -100.
C10_RemapAndClamp ==
  [][/\ build = "servo"
     /\ data' # Null
     /\ startsWith(data', TILT)
     /\ IsSignedInteger(substring(data', 5))
     => LET p == atol(substring(data', 5))
        IN  targetServoAngle' =
              IF p > 100 THEN SERVO_MAX
              ELSE IF p < -100 THEN SERVO_MIN
              ELSE SERVO_MIN + ((p + 100) * 40) \div 200]_vars

----------------------------------------------------------------------------
(* Properties of the host games.                                           *)

\* C1: Variant B: in every reachable state with gameOver = FALSE,
\* |towerOffset| <= maxTowerOffset.
C1_TiltBounded ==
  build = "B" /\ ~gameOver => Abs(towerOffset) <= maxTowerOffset

\* two blocks have landed off centre on the same side and the game goes on
C1_Witness ==
  /\ build = "B"
  /\ ~gameOver
  /\ score = 2
  /\ Len(stackedBlocks) = 2
  /\ Abs(towerOffset) > PX(80)

\* C2: once gameOver is true, and until resetGame runs, no frame, key press
\* or received line changes the current block's position, the stack, the
\* score, towerOffset or the speeds (both host games).
C2_GameOverTerminal ==
  [][gameOver /\ gameOver' =>
       /\ currentBlock'.x = currentBlock.x
       /\ currentBlock'.y = currentBlock.y
       /\ stackedBlocks' = stackedBlocks
       /\ score' = score
       /\ towerOffset' = towerOffset
       /\ fallSpeed' = fallSpeed
       /\ blockSpeed' = blockSpeed]_vars

----------------------------------------------------------------------------
(* Properties of calculateOverlap.                                         *)

\* the unit cells [c, c + 1] that a block centred at x with width w covers
CellsOf(x, w) ==
  {c \in (-MaxHalfWidth - 1)..(MaxCentre + MaxHalfWidth + 1) :
     2 * c >= 2 * x - w /\ 2 * (c + 1) <= 2 * x + w}

\* the length of the intersection of the two blocks' intervals
IntersectionLength(x1, w1, x2, w2) ==
  Cardinality(CellsOf(x1, w1) \cap CellsOf(x2, w2))

\* the same length by the ends of the intervals, on any scale
IntervalOverlap(x1, w1, x2, w2) ==
  LET lo == Max(2 * x1 - w1, 2 * x2 - w2)
      hi == Min(2 * x1 + w1, 2 * x2 + w2)
  IN  IF hi > lo THEN (hi - lo) \div 2 ELSE 0

\* the first block lies within the second
Within(x1, w1, x2, w2) ==
  2 * x2 - w2 <= 2 * x1 - w1 /\ 2 * x1 + w1 <= 2 * x2 + w2

\* the two blocks have at most a point in common
Disjoint(x1, w1, x2, w2) ==
  2 * x1 + w1 <= 2 * x2 - w2 \/ 2 * x2 + w2 <= 2 * x1 - w1

\* C11: calculateOverlap(x1, w1, x2, w2) is the length of the intersection
\* of the two centred intervals, floored at 0: it is 0 when they are
\* disjoint, min(w1, w2) when one contains the other, never negative, the
\* same with the two blocks exchanged, and the same in both host games
C11_OverlapIsIntersection ==
  build = "overlap" /\ ovResult # <<>> =>
    LET x1 == ovArgs[1]
        w1 == ovArgs[2]
        x2 == ovArgs[3]
        w2 == ovArgs[4]
    IN  /\ ovResult.a = IntersectionLength(x1, w1, x2, w2)
        /\ ovResult.b = ovResult.a
        /\ ovResult.a >= 0
        /\ ovResult.b >= 0
        /\ Disjoint(x1, w1, x2, w2) => ovResult.a = 0 /\ ovResult.b = 0
        /\ Within(x1, w1, x2, w2) \/ Within(x2, w2, x1, w1) =>
             ovResult.a = Min(w1, w2) /\ ovResult.b = Min(w1, w2)
        /\ ovResult.aSwapped = ovResult.a
        /\ ovResult.bSwapped = ovResult.b

\* a narrower block strictly inside a wider one has been measured, and so
\* have two blocks that are apart
C11_Witness ==
  /\ build = "overlap"
  /\ ovResult # <<>>
  /\ ovArgs[2] < ovArgs[4]
  /\ ovArgs[2] > 0
  /\ Within(ovArgs[1], ovArgs[2], ovArgs[3], ovArgs[4])
  /\ ovResult.b = ovArgs[2]

----------------------------------------------------------------------------
(* Properties of the placement.                                            *)

\* the platform, or the block last stacked: what a drop is judged against
TargetX(g, platformX) ==
  IF Len(g.stackedBlocks) = 0 THEN platformX ELSE Last(g.stackedBlocks).x

TargetWidth(g, platformW) ==
  IF Len(g.stackedBlocks) = 0 THEN platformW ELSE Last(g.stackedBlocks).w

\* the length the current block and its target have in common
OverlapA(g) ==
  IntervalOverlap(g.currentBlock.x, g.currentBlock.w,
                  TargetX(g, platformXA), TargetWidth(g, platformWA))

OverlapB(g) ==
  IntervalOverlap(g.currentBlock.x, g.currentBlock.w,
                  TargetX(g, platformXB), TargetWidth(g, platformWB))

\* the current block of Variant B sweeps: a drop is not ignored
Sweeping(g) ==
  ~g.gameOver /\ ~g.currentBlock.isFalling /\ ~g.currentBlock.hasTarget

\* the centre of the current block is within the platform's drop zone
InPlatformZone(g) ==
  /\ 2 * g.currentBlock.x >= 2 * platformXB - platformWB - 2 * dropZoneMargin
  /\ 2 * g.currentBlock.x <= 2 * platformXB + platformWB + 2 * dropZoneMargin

\* the drop leaves the game over, the stack and the score as they were
FailsDrop(g, r) ==
  r.gameOver /\ r.stackedBlocks = g.stackedBlocks /\ r.score = g.score

\* C12: in both host games a judged drop whose overlap with its target is
\* at most 20 (exactly 20 and 0 included) sets gameOver, adds nothing to
\* the stack and leaves the score; only an overlap above 20 places a block,
\* and no step that ends the game changes the stack or the score
C12_Threshold ==
  /\ [](build = "A" /\ ~gameOver =>
         \A rx \in RandomXs(blockWidth) :
           LET r == dropBlockA(Game, rx)
           IN  /\ OverlapA(Game) <= minOverlap => FailsDrop(Game, r)
               /\ Len(r.stackedBlocks) > Len(stackedBlocks) =>
                    OverlapA(Game) > minOverlap)
  /\ [](build = "B" /\ Sweeping(Game) /\ InPlatformZone(Game) =>
         LET r == dropBlockB(Game)
         IN  /\ OverlapB(Game) <= minOverlap => FailsDrop(Game, r)
             /\ Len(r.stackedBlocks) > Len(stackedBlocks) =>
                  OverlapB(Game) > minOverlap)
  /\ [][~gameOver /\ gameOver' =>
         stackedBlocks' = stackedBlocks /\ score' = score]_vars

\* a game of Variant A has ended on a first block that had exactly 20
\* pixels in common with the platform
C12_Witness ==
  /\ build = "A"
  /\ gameOver
  /\ stackedBlocks = <<>>
  /\ score = 0
  /\ OverlapA(Game) = PX(20)

----------------------------------------------------------------------------
(* Properties of the restart.                                              *)

\* the values the globals' initialisers and setup() give
StartValues ==
  IF build = "B"
  THEN [fallSpeed |-> PX(5), blockSpeed |-> Tenths(55), blockWidth |-> PX(80),
        platformY |-> heightB - PX(100)]
  ELSE [fallSpeed |-> PX(2), blockSpeed |-> 0, blockWidth |-> PX(80),
        platformY |-> heightA - PX(100)]

\* C13: resetGame restores the values of the start of the program: score 0,
\* an empty stack, towerOffset 0, gameOver false, platform.y at its initial
\* value, and every speed (fallSpeed, in Variant B blockSpeed) and
\* blockWidth as the program started with them
C13_ResetRestoresStart ==
  [][gameOver /\ ~gameOver' =>
       /\ score' = 0
       /\ stackedBlocks' = <<>>
       /\ towerOffset' = 0
       /\ platformY' = StartValues.platformY
       /\ fallSpeed' = StartValues.fallSpeed
       /\ blockSpeed' = StartValues.blockSpeed
       /\ blockWidth' = StartValues.blockWidth]_vars

\* the game r is a game that has just been restarted: nothing stacked, no
\* score, no tilt, not over, and a new block where blocks are spawned
Restarted(r) ==
  /\ r.score = 0
  /\ r.stackedBlocks = <<>>
  /\ ~r.gameOver
  /\ r.towerOffset = 0
  /\ IF build = "B"
     THEN /\ r.currentBlock.y = spawnYB
          /\ r.currentBlock.x = -Half(r.blockWidth)
          /\ ~r.currentBlock.isFalling /\ ~r.currentBlock.hasTarget
     ELSE r.currentBlock.y = 0 /\ r.currentBlock.isFalling

RestartKeys == {"r", "R"}

\* C14 as stated: the R key restarts the game from any state, mid-sweep and
\* mid-fall included, not only when the game is over
C14_RestartAnyState ==
  /\ build = "B" =>
       \A key \in RestartKeys : Restarted(onKeyPressedB(Game, key))
  /\ build = "A" =>
       \A key \in RestartKeys, rx \in RandomXs(PX(80)) :
         Restarted(onKeyPressedA(Game, key, rx))

\* C14, amended: the R key restarts the game when the game is over, and
\* only then; while a game is running the key changes nothing
C14_RestartOnlyAtGameOver ==
  /\ build = "B" =>
       \A key \in RestartKeys :
         LET r == onKeyPressedB(Game, key)
         IN  IF gameOver THEN Restarted(r) ELSE r = Game
  /\ build = "A" =>
       \A key \in RestartKeys, rx \in RandomXs(PX(80)) :
         LET r == onKeyPressedA(Game, key, rx)
         IN  IF gameOver THEN Restarted(r) ELSE r = Game

\* a game of Variant B has been restarted: it runs at the sweep speed that
\* only resetGame() assigns
C14_Witness ==
  /\ build = "B"
  /\ Restarted(Game)
  /\ blockSpeed = PX(5)

\* the number of lines of q that are the line l
Count(q, l) == Cardinality({i \in 1..Len(q) : q[i] = l})

\* C15: every resetGame() of Variant B run while the Arduino is connected
\* writes exactly one line "RESET" to it; the firmware, on the line RESET,
\* sets targetServoAngle to 90, and the angle and the fans are those the
\* motion and fan steps of that iteration give for the target it had before
C15_ResetHandshake ==
  /\ [][build = "B" /\ gameOver /\ ~gameOver' =>
         IF useArduino
         THEN /\ Count(written', RESET \o <<"\n">>) = 1
              /\ Len(written') = 1
         ELSE written' = <<>>]_vars
  /\ [][build = "servo" /\ data' = RESET =>
         LET moved == updateServoPosition(currentServoAngle,
                                          targetServoAngle, FanState, millis')
             fans == updateFans(moved.fan, millis')
         IN  /\ targetServoAngle' = SERVO_CENTER
             /\ currentServoAngle' = moved.cur
             /\ Abs(currentServoAngle' - currentServoAngle) <= 1
             /\ leftFanActive' = fans.lActive
             /\ rightFanActive' = fans.rActive
             /\ leftFanStartTime' = fans.lStart
             /\ rightFanStartTime' = fans.rStart]_vars

\* a connected game of Variant B has been restarted and has told the servo
C15_Witness ==
  /\ build = "B"
  /\ useArduino
  /\ Restarted(Game)
  /\ written = <<RESET \o <<"\n">>>>

----------------------------------------------------------------------------
(* Properties of the serial input of the host games.                       *)

\* C16: the serial part of a frame of draw() ends for every content of the
\* receive buffer (nothing, complete lines, the beginning of a line whose
\* newline has not come): no frame stays in its read loop
C16_ReadPhaseEnds == build \in {"A", "B"} => frame = "done"

----------------------------------------------------------------------------
(* Properties of the drop of Variant B.                                    *)

\* the tilt the tower would have with the current block placed where it is
ProspectiveOffset(g) ==
  g.towerOffset + (g.currentBlock.x - TargetX(g, platformXB))

\* a drop now would be judged, would overlap enough, and would tilt the
\* tower beyond maxTowerOffset
ProspectiveTiltCase(g) ==
  /\ Sweeping(g)
  /\ InPlatformZone(g)
  /\ OverlapB(g) > minOverlap
  /\ Abs(ProspectiveOffset(g)) > maxTowerOffset

\* the tower's offset is where the top block stands relative to the
\* platform, so a block inside the drop zone never reaches that case
NoProspectiveTiltCase ==
  build = "B" =>
    /\ ~ProspectiveTiltCase(Game)
    /\ Sweeping(Game) =>
         towerOffset = TargetX(Game, platformXB) - platformXB

----------------------------------------------------------------------------
(* Properties of the stack of Variant A.                                   *)

\* what the i-th stacked block of Variant A stands on
BeneathA(i) ==
  IF i = 1 THEN [x |-> platformXA, w |-> platformWA]
  ELSE [x |-> stackedBlocks[i - 1].x, w |-> stackedBlocks[i - 1].w]

\* C18: a block placed in Variant A is trimmed to the overlap and centred
\* on the overlap region, so that its interval is the intersection of the
\* falling block and its target: every stacked block lies horizontally
\* within the block (or the platform) beneath it
C18_StackedWithinBeneath ==
  build = "A" =>
    \A i \in 1..Len(stackedBlocks) :
      Within(stackedBlocks[i].x, stackedBlocks[i].w,
             BeneathA(i).x, BeneathA(i).w)

\* the centre of the current block is within the zone laid around what the
\* drop is judged against: the platform, or the block last stacked
InTargetZone(g) ==
  LET tx == TargetX(g, platformXB)
      tw == TargetWidth(g, platformWB)
  IN  /\ 2 * g.currentBlock.x >= 2 * tx - tw - 2 * dropZoneMargin
      /\ 2 * g.currentBlock.x <= 2 * tx + tw + 2 * dropZoneMargin

\* the drop r of the sweeping block of g is judged and, the overlap and the
\* tilt allowing it, places the block
PlacedIfFit(g, r) ==
  OverlapB(g) > minOverlap /\ Abs(ProspectiveOffset(g)) <= maxTowerOffset =>
    ~r.gameOver /\ Len(r.stackedBlocks) = Len(g.stackedBlocks) + 1

\* C19 as stated: a drop is judged only while the block's centre is within
\* [targetX - targetWidth/2 - 30, targetX + targetWidth/2 + 30], the target
\* being the platform under an empty stack and the block last stacked
\* otherwise; a drop outside that zone ends the game
C19_ZoneAroundTarget ==
  build = "B" /\ Sweeping(Game) =>
    LET r == dropBlockB(Game)
    IN  IF InTargetZone(Game) THEN PlacedIfFit(Game, r)
        ELSE FailsDrop(Game, r)

\* C19, amended: the zone is laid around the platform whatever is stacked:
\* [platform.x - platform.w/2 - 30, platform.x + platform.w/2 + 30]
C19_ZoneAroundPlatform ==
  build = "B" /\ Sweeping(Game) =>
    LET r == dropBlockB(Game)
    IN  IF InPlatformZone(Game) THEN PlacedIfFit(Game, r)
        ELSE FailsDrop(Game, r)

\* a game has ended on a drop outside the platform's zone of a block that
\* was within the zone around the top block and overlapped it by more than
\* 20
C19_Witness ==
  /\ build = "B"
  /\ gameOver
  /\ Len(stackedBlocks) > 0
  /\ ~currentBlock.isFalling /\ ~currentBlock.hasTarget
  /\ InTargetZone(Game)
  /\ ~InPlatformZone(Game)
  /\ OverlapB(Game) > minOverlap

----------------------------------------------------------------------------
(* Properties of the joystick firmware.                                    *)

Joystick == build \in {"joyXY", "joyX"}

\* C20 as stated: an iteration of loop() prints at most one token among
\* LEFT, RIGHT, DOWN and DROP, whatever the X reading, the Y reading and
\* the button are
C20_AtMostOneToken == Joystick => Len(printed) <= 1

\* C20, amended: an iteration prints at most one of LEFT and RIGHT (LEFT
\* below the dead zone, RIGHT above it, neither inside), then DOWN if and
\* only if the sketch reads the Y axis and it is above the dead zone, then
\* at most one DROP: up to three tokens, two in the sketch without Y axis
C20_OneTokenOfEachKind ==
  Joystick =>
    /\ \A i \in 1..Len(printed) : printed[i] \in {LEFT, RIGHT, DOWN, DROP}
    /\ Count(printed, LEFT) + Count(printed, RIGHT) <= 1
    /\ Count(printed, DOWN) <= 1
    /\ Count(printed, DROP) <= 1
    /\ Len(printed) <= IF build = "joyXY" THEN 3 ELSE 2
    /\ printed # <<>> =>
         /\ Count(printed, LEFT) = 1 <=> xValue < 512 - centerThreshold
         /\ Count(printed, RIGHT) = 1 <=> xValue > 512 + centerThreshold
         /\ Count(printed, DOWN) = 1 <=>
              build = "joyXY" /\ yValue > 512 + centerThreshold

\* an iteration with the stick down and to the left and the button pressed
\* has printed three tokens
C20_Witness ==
  /\ build = "joyXY"
  /\ printed = <<LEFT, DOWN, DROP>>

----------------------------------------------------------------------------
(* Properties of the fan triggering.                                       *)

\* C21 as stated: a fan is activated only in a motion step that crosses its
\* threshold: the left fan in a step that takes currentServoAngle from at
\* most SERVO_CENTER + 3 to above it, the right fan in one that takes it
\* from at least SERVO_CENTER - 3 to below it; a step that starts beyond
\* the threshold activates no fan
C21_OnlyOnCrossing ==
  [][build = "servo" =>
       /\ fanSwitchedOn' = "left" =>
            /\ currentServoAngle <= SERVO_CENTER + 3
            /\ currentServoAngle' > SERVO_CENTER + 3
       /\ fanSwitchedOn' = "right" =>
            /\ currentServoAngle >= SERVO_CENTER - 3
            /\ currentServoAngle' < SERVO_CENTER - 3]_vars

\* C21, amended: the left fan is activated only in a motion step that
\* increases currentServoAngle to a value above SERVO_CENTER + 3 while the
\* left fan is off, and in every such step; the right fan likewise in a
\* step that decreases it to a value below SERVO_CENTER - 3; the step may
\* start beyond the threshold
C21_BeyondThresholdWhileMoving ==
  [][build = "servo" =>
       /\ fanSwitchedOn' = "left" <=>
            /\ currentServoAngle' = currentServoAngle + 1
            /\ currentServoAngle' > SERVO_CENTER + 3
            /\ ~leftFanActive
       /\ fanSwitchedOn' = "right" <=>
            /\ currentServoAngle' = currentServoAngle - 1
            /\ currentServoAngle' < SERVO_CENTER - 3
            /\ ~rightFanActive]_vars

\* the left fan has been activated by a step that started above its
\* threshold
C21_Witness ==
  /\ build = "servo"
  /\ fanSwitchedOn = "left"
  /\ currentServoAngle > SERVO_CENTER + 4

----------------------------------------------------------------------------
(* Properties of the block widths of Variant A.                            *)

\* C22: in Variant A the widths of the stacked blocks do not increase in
\* placement order, each is above 20 and at most the platform's width, and
\* the width of the block last spawned is the width of the top stacked
\* block (80 when the stack is empty)
C22_Ratchet ==
  build = "A" =>
    /\ \A i \in 1..Len(stackedBlocks) :
         /\ stackedBlocks[i].w > minOverlap
         /\ stackedBlocks[i].w <= platformWA
         /\ i > 1 => stackedBlocks[i].w <= stackedBlocks[i - 1].w
    /\ currentBlock.w = IF stackedBlocks = <<>> THEN PX(80)
                        ELSE Last(stackedBlocks).w

\* the part of C22 the code keeps: the stacked widths do not increase and
\* stay within (20, platform width], and no spawned block is wider than
\* the top stacked block
C22_WidthsNeverGrow ==
  build = "A" =>
    /\ \A i \in 1..Len(stackedBlocks) :
         /\ stackedBlocks[i].w > minOverlap
         /\ stackedBlocks[i].w <= platformWA
         /\ i > 1 => stackedBlocks[i].w <= stackedBlocks[i - 1].w
    /\ currentBlock.w <= IF stackedBlocks = <<>> THEN PX(80)
                         ELSE Last(stackedBlocks).w

----------------------------------------------------------------------------
(* Properties of the descent of the tower of Variant B.                    *)

\* the i-th stacked block has come to rest
Landed(i) == ~stackedBlocks[i].isFalling /\ ~stackedBlocks[i].hasTarget

\* the y of what the i-th stacked block stands on
BeneathY(i) == IF i = 1 THEN platformY ELSE stackedBlocks[i - 1].y

\* C23: in Variant B each landing moves the platform and every stacked
\* block down by blockDescentAmount, once: after every frame platform.y is
\* its start value plus blockDescentAmount times the score, and every
\* landed block is blockHeight above what it stands on; in the frame of a
\* landing the platform and every block landed before move by exactly
\* blockDescentAmount, and in no other frame of a game do they move
C23_Descent ==
  /\ [](build = "B" =>
         /\ platformY = platformY0B + blockDescentAmount * score
         /\ \A i \in 1..Len(stackedBlocks) :
              Landed(i) => stackedBlocks[i].y = BeneathY(i) - blockHeightB)
  /\ [][build = "B" /\ ~gameOver /\ ~gameOver' =>
         LET step == IF score' = score + 1 THEN blockDescentAmount ELSE 0
         IN  /\ score' \in {score, score + 1}
             /\ platformY' = platformY + step
             /\ Len(stackedBlocks') >= Len(stackedBlocks)
             /\ \A i \in 1..Len(stackedBlocks) :
                  Landed(i) =>
                    stackedBlocks'[i].y = stackedBlocks[i].y + step]_vars

\* two blocks have landed and the tower has moved down twice
C23_Witness ==
  /\ build = "B"
  /\ score = 2
  /\ Len(stackedBlocks) = 2
  /\ Landed(2)
  /\ platformY = platformY0B + 2 * blockDescentAmount
  /\ stackedBlocks[1].y = platformY - blockHeightB
  /\ stackedBlocks[2].y = platformY - 2 * blockHeightB

----------------------------------------------------------------------------
(* Properties of the button of the firmware.                               *)

\* C24: DROP is printed only for a new press: an iteration of loop() that
\* finds the button LOW after the iteration before it found it LOW (the
\* button is held) prints no DROP
C24_EdgeTriggered ==
  [][Joystick /\ buttonLow /\ buttonLow' => Count(printed', DROP) = 0]_vars

\* what the code does: an iteration prints DROP exactly when it finds the
\* button LOW, whatever the iteration before found
C24_LevelTriggered ==
  Joystick => (Count(printed, DROP) = 1 <=> buttonLow)

----------------------------------------------------------------------------
(* Properties of the tilt of the tower of Variant B.                       *)

\* the number of stacked blocks that have come to rest: only the block
\* last committed can still be on its way
LandedBlocks ==
  IF stackedBlocks # <<>> /\ ~Landed(Len(stackedBlocks))
  THEN Len(stackedBlocks) - 1 ELSE Len(stackedBlocks)

\* where the block last landed stands relative to the platform
TopMisplacement ==
  IF LandedBlocks = 0 THEN 0 ELSE stackedBlocks[LandedBlocks].x - platformXB

\* the TILT values among the lines the host wrote in the last frame
TiltsWritten ==
  { atol(substring(written[i], 5)) :
      i \in { j \in 1..Len(written) : startsWith(written[j], TILT) } }

\* C25: in Variant B a block's misalignment is added to towerOffset once,
\* in the frame it lands: after every frame towerOffset is the x of the
\* block last landed minus platform.x (0 when none has landed), so its
\* magnitude is at most platform.w/2 + 30 = 90, and every TILT value the
\* host sends is within [-100, 100]
C25_TiltBookkeeping ==
  /\ [](build = "B" =>
         /\ towerOffset = TopMisplacement
         /\ Abs(towerOffset) <= Half(platformWB) + dropZoneMargin
         /\ \A t \in TiltsWritten : t >= -100 /\ t <= 100)
  /\ [][build = "B" /\ ~gameOver /\ ~gameOver' =>
         towerOffset' = IF score' = score + 1
                        THEN towerOffset + currentBlock.misalignment
                        ELSE towerOffset]_vars

\* two blocks have landed, the second off the first, and the host has sent
\* the tilt that follows from them
C25_Witness ==
  /\ build = "B"
  /\ useArduino
  /\ score = 2
  /\ LandedBlocks = 2
  /\ stackedBlocks[2].misalignment # 0
  /\ Abs(towerOffset) > PX(80)
  /\ TiltsWritten # {}
  /\ \A t \in TiltsWritten : Abs(t) > 0

----------------------------------------------------------------------------
(* Properties of the progress of Variant B.                                *)

\* the game goes on and nothing changes it: a frame leaves it as it is, and
\* so does every key and every line from the Arduino
Frozen(g) ==
  /\ ~g.gameOver
  /\ stepB(g) = g
  /\ \A key \in KeysB : onKeyPressedB(g, key) = g
  /\ \A line \in LinesB :
       handleArduinoInputB(g, trim(line)) = g

\* C26: a block committed by dropBlock lands after finitely many frames at
\* every height of the stack, so the game of Variant B never reaches a
\* state with gameOver false in which no landing, drop or miss can occur
\* any more
C26_NeverFrozen == build \in {"B", "tall"} => ~Frozen(Game)

====
